---- MODULE Spec2Model ----
(***************************************************************************)
(* Minimum AI CAD: the React client (App.tsx, api.ts, AssemblyViewer.tsx), *)
(* the HTTP exchange with the assembly backend, and the backend's          *)
(* constraint-to-geometry pipeline.                                        *)
(***************************************************************************)
EXTENDS Integers, Sequences, FiniteSets, TLC

VARIABLES
    part1,           \* App state: UploadedFile of slot 1, or Null
    part2,           \* App state: UploadedFile of slot 2, or Null
    constraints,     \* App state: the instruction text
    assemblyResult,  \* App state: the displayed AssemblyResult, or Null
    processing,      \* App state: a createAssembly call is outstanding
    createCall,      \* the outstanding POST /api/v1/assembly, or Null
    timers,          \* run ids with an active setInterval poll timer
    polls,           \* in-flight GET /api/v1/assembly/{id} calls
    runs,            \* backend: the runs created so far, by id
    exports,         \* in-flight POST /api/v1/assembly/{id}/export calls
    constraint,      \* ConstraintInput state: the text in the textarea
    effects,         \* what handleExport did: files saved, alerts shown
    scenes,          \* StepViewer of slot n: the file its effect saw, its scene
    geo,             \* selection / viewer check: input and outputs
    pipe             \* backend pipeline of one run: input, stage, placement

uiVars == <<constraint, effects, scenes>>
appVars == <<part1, part2, constraints, assemblyResult, processing,
             createCall, timers, polls, runs, exports, uiVars>>
vars == <<part1, part2, constraints, assemblyResult, processing,
          createCall, timers, polls, runs, exports, constraint, effects,
          scenes, geo, pipe>>

----------------------------------------------------------------------------
(* Bounds of the model *)

MaxRuns == 2
MaxInFlight == 2
MaxExports == 1

----------------------------------------------------------------------------
(* Values *)

\* JavaScript null / a missing optional field
Null == <<>>
Some(x) == <<x>>
Undefined == "undefined"

\* id of the result App synthesises in its catch block
ErrorId == 0

Terminal == {"completed", "failed"}

\* what a pipeline stage can raise; the client treats the text as opaque, so the
\* client-side runs fail with one representative of them or with the timeout
ErrorKinds == {"GeometryError", "ConstraintConflictError", "CollisionError"}
StageErrors == {"CollisionError"}

\* instruction texts a user can have in the textarea (characters as strings)
Texts == {<<>>, <<" ">>, <<" ", "a">>}

RECURSIVE TrimLeft(_)
TrimLeft(t) == IF t # <<>> /\ Head(t) = " " THEN TrimLeft(Tail(t)) ELSE t

RECURSIVE TrimRight(_)
TrimRight(t) ==
    IF t # <<>> /\ t[Len(t)] = " " THEN TrimRight(SubSeq(t, 1, Len(t) - 1)) ELSE t

\* String.prototype.trim
Trim(t) == TrimRight(TrimLeft(t))

\* ids of the files the backend stores for the uploads of slot 1 and slot 2
UploadedFiles == <<"file-1", "file-2">>

\* values a rejected api call can throw
Thrown == {[isError |-> TRUE, message |-> "Network Error"],
           [isError |-> FALSE, message |-> Undefined]}

\* Constraint values; confidence in percent
Both == {"part1", "part2"}

DistanceC(v, u) ==
    [type |-> "distance", value |-> v, unit |-> u,
     orientation |-> "none", references |-> Both, confidence |-> 90]

AlignmentC(o) ==
    [type |-> "alignment", value |-> 0, unit |-> "relative",
     orientation |-> o, references |-> Both, confidence |-> 90]

AngleC(v) ==
    [type |-> "angle", value |-> v, unit |-> "degrees",
     orientation |-> "none", references |-> Both, confidence |-> 90]

LowConfidence(c) == [c EXCEPT !.confidence = 30]

\* the constraint parser: what it understands of an instruction text; the
\* instruction of the model yields a distance and a low-confidence alignment
ParseConstraints(text) ==
    IF text = <<>> THEN <<>>
    ELSE <<DistanceC(50, "mm"), LowConfidence(AlignmentC("vertical"))>>

\* the PartAnalysis of slot n the backend echoes in a result
PartAnalysis(n) ==
    [geometry |-> Some([center |-> IF n = 1 THEN <<0, 0, 0>> ELSE <<100, 0, 0>>])]

\* {} as any: an object without a geometry
EmptyObject == [geometry |-> Null]

----------------------------------------------------------------------------
(* Backend as the client sees it *)

\* the AssemblyResult the backend returns for run id
Snapshot(id) ==
    LET r == runs[id] IN
    [id        |-> id,
     status    |-> r.status,
     part1     |-> PartAnalysis(1),
     part2     |-> PartAnalysis(2),
     connector |-> IF r.status = "completed" THEN "connector-url" ELSE Undefined,
     assembly  |-> IF r.status = "completed" THEN "assembly-url" ELSE Undefined,
     parsedConstraints |-> r.parsed,
     error     |-> IF r.status = "failed" THEN r.error ELSE Undefined]

\* POST /api/v1/assembly reaches the backend: a new run starts
ServerCreate ==
    /\ createCall # Null
    /\ createCall[1].resp = Null
    /\ Len(runs) < MaxRuns
    /\ runs' = Append(runs,
            [status |-> "processing", error |-> Undefined,
             parsed |-> ParseConstraints(createCall[1].req.constraints)])
    /\ createCall' = Some([createCall[1] EXCEPT
            !.resp = Some([id        |-> Len(runs) + 1,
                           status    |-> "processing",
                           part1     |-> PartAnalysis(1),
                           part2     |-> PartAnalysis(2),
                           connector |-> Undefined,
                           assembly  |-> Undefined,
                           parsedConstraints |->
                                ParseConstraints(createCall[1].req.constraints),
                           error     |-> Undefined])])
    /\ UNCHANGED <<part1, part2, constraints, assemblyResult, processing,
                   timers, polls, geo, pipe, exports, uiVars>>

\* the run's pipeline finishes: processing -> completed
RunComplete(id) ==
    /\ id \in DOMAIN runs
    /\ runs[id].status = "processing"
    /\ runs' = [runs EXCEPT ![id].status = "completed"]
    /\ UNCHANGED <<part1, part2, constraints, assemblyResult, processing,
                   createCall, timers, polls, geo, pipe, exports, uiVars>>

\* a stage of the run raises: processing -> failed
RunFail(id, e) ==
    /\ id \in DOMAIN runs
    /\ runs[id].status = "processing"
    /\ runs' = [runs EXCEPT ![id].status = "failed", ![id].error = e]
    /\ UNCHANGED <<part1, part2, constraints, assemblyResult, processing,
                   createCall, timers, polls, geo, pipe, exports, uiVars>>

\* the run exceeds its processing budget: cancelled, failed with a timeout
RunTimeout(id) ==
    /\ id \in DOMAIN runs
    /\ runs[id].status = "processing"
    /\ runs' = [runs EXCEPT ![id].status = "failed", ![id].error = "TimeoutError"]
    /\ UNCHANGED <<part1, part2, constraints, assemblyResult, processing,
                   createCall, timers, polls, geo, pipe, exports, uiVars>>

\* GET /api/v1/assembly/{id} reaches the backend: it answers with the run's state
ServerPoll(p) ==
    /\ p \in polls
    /\ p.resp = Null
    /\ polls' = (polls \ {p}) \cup {[p EXCEPT !.resp = Some(Snapshot(p.run))]}
    /\ UNCHANGED <<part1, part2, constraints, assemblyResult, processing,
                   createCall, timers, runs, geo, pipe, exports, uiVars>>

----------------------------------------------------------------------------
(* App.tsx *)

\* mutant: the Generate button stays enabled while a call is outstanding
canGenerateWhileProcessing ==
    /\ part1 # Null
    /\ part2 # Null
    /\ Trim(constraints) # <<>>

canGenerate ==
    /\ part1 # Null
    /\ part2 # Null
    /\ Trim(constraints) # <<>>
    /\ ~processing

\* FileUpload of slot n reports an uploaded file (disabled while processing)
onFileUploaded(n, f) ==
    /\ ~processing
    /\ IF n = 1 THEN part1' = Some(f) /\ UNCHANGED part2
                ELSE part2' = Some(f) /\ UNCHANGED part1
    /\ UNCHANGED <<constraints, assemblyResult, processing, createCall,
                   timers, polls, runs, geo, pipe, exports, uiVars>>

\* ConstraintInput reports a new text (disabled while processing)
setConstraints(t) ==
    /\ ~processing
    /\ constraints' = t
    /\ UNCHANGED <<part1, part2, assemblyResult, processing, createCall,
                   timers, polls, runs, geo, pipe, exports, effects, scenes>>

\* mutant: the text is tested and sent as typed, without trim()
handleGenerateAssemblyUntrimmed ==
    /\ ~processing
    /\ ~(part1 = Null \/ part2 = Null \/ constraints = <<>>)
    /\ processing' = TRUE
    /\ assemblyResult' = Null
    /\ createCall' = Some([req  |-> [part1Id     |-> part1[1],
                                    part2Id     |-> part2[1],
                                    constraints |-> constraints],
                           resp |-> Null])
    /\ UNCHANGED <<part1, part2, constraints, timers, polls, runs, geo, pipe,
                   exports, uiVars>>

\* handleGenerateAssembly up to the await of api.createAssembly
handleGenerateAssembly ==
    /\ canGenerate
    /\ ~(part1 = Null \/ part2 = Null \/ Trim(constraints) = <<>>)
    /\ processing' = TRUE
    /\ assemblyResult' = Null
    /\ createCall' = Some([req  |-> [part1Id     |-> part1[1],
                                    part2Id     |-> part2[1],
                                    constraints |-> Trim(constraints)],
                           resp |-> Null])
    /\ UNCHANGED <<part1, part2, constraints, timers, polls, runs, geo, pipe,
                   exports, uiVars>>

\* handleGenerateAssembly after api.createAssembly resolved
CreateReturn ==
    /\ createCall # Null
    /\ createCall[1].resp # Null
    /\ LET result == createCall[1].resp[1] IN
        /\ assemblyResult' = Some(result)
        /\ timers' = IF result.status = "processing"
                     THEN timers \cup {result.id} ELSE timers
    /\ processing' = FALSE
    /\ createCall' = Null
    /\ UNCHANGED <<part1, part2, constraints, polls, runs, geo, pipe,
                   exports, uiVars>>

\* mutant: the catch block keeps a connector handle in the failed result
CatchResultStaleConnector(error) ==
    [id        |-> ErrorId,
     status    |-> "failed",
     part1     |-> EmptyObject,
     part2     |-> EmptyObject,
     connector |-> "connector-url",
     assembly  |-> Undefined,
     parsedConstraints |-> <<>>,
     error     |-> IF error.isError THEN error.message
                   ELSE "Unknown error occurred"]

\* mutant: the catch block copies error.message without the instanceof test
CatchResultRawMessage(error) ==
    [id        |-> ErrorId,
     status    |-> "failed",
     part1     |-> EmptyObject,
     part2     |-> EmptyObject,
     connector |-> Undefined,
     assembly  |-> Undefined,
     parsedConstraints |-> <<>>,
     error     |-> error.message]

\* the failed result the catch block of handleGenerateAssembly builds
CatchResult(error) ==
    [id        |-> ErrorId,
     status    |-> "failed",
     part1     |-> EmptyObject,
     part2     |-> EmptyObject,
     connector |-> Undefined,
     assembly  |-> Undefined,
     parsedConstraints |-> <<>>,
     error     |-> IF error.isError THEN error.message
                   ELSE "Unknown error occurred"]

\* handleGenerateAssembly after api.createAssembly rejected with error
CreateThrow(error) ==
    /\ createCall # Null
    /\ assemblyResult' = Some(CatchResult(error))
    /\ processing' = FALSE
    /\ createCall' = Null
    /\ UNCHANGED <<part1, part2, constraints, timers, polls, runs, geo, pipe,
                   exports, uiVars>>

\* the interval callback of run id starts api.getAssembly(id)
PollTick(id) ==
    /\ id \in timers
    /\ Cardinality(polls) < MaxInFlight
    /\ polls' = polls \cup {[run |-> id, resp |-> Null]}
    /\ UNCHANGED <<part1, part2, constraints, assemblyResult, processing,
                   createCall, timers, runs, geo, pipe, exports, uiVars>>

\* mutant: the interval is not cleared when the poll reports a terminal status
PollReturnKeepsPolling(p) ==
    /\ p \in polls
    /\ p.resp # Null
    /\ assemblyResult' = Some(p.resp[1])
    /\ polls' = polls \ {p}
    /\ UNCHANGED <<part1, part2, constraints, processing, createCall,
                   timers, runs, geo, pipe, exports, uiVars>>

\* the interval callback after api.getAssembly resolved
PollReturn(p) ==
    /\ p \in polls
    /\ p.resp # Null
    /\ LET updatedResult == p.resp[1] IN
        /\ assemblyResult' = Some(updatedResult)
        /\ timers' = IF updatedResult.status # "processing"
                     THEN timers \ {p.run} ELSE timers
    /\ polls' = polls \ {p}
    /\ UNCHANGED <<part1, part2, constraints, processing, createCall,
                   runs, geo, pipe, exports, uiVars>>

\* the interval callback after api.getAssembly rejected
PollThrow(p) ==
    /\ p \in polls
    /\ timers' = timers \ {p.run}
    /\ polls' = polls \ {p}
    /\ UNCHANGED <<part1, part2, constraints, assemblyResult, processing,
                   createCall, runs, geo, pipe, exports, uiVars>>

\* handleReset (the button is disabled while processing)
handleReset ==
    /\ ~processing
    /\ part1' = Null
    /\ part2' = Null
    /\ constraints' = <<>>
    /\ assemblyResult' = Null
    /\ UNCHANGED <<processing, createCall, timers, polls, runs, geo, pipe,
                   exports, uiVars>>

----------------------------------------------------------------------------
(* ConstraintInput.tsx *)

\* handleChange, for a change event of the textarea and for a click on an
\* example button (both disabled while processing): setConstraint(value), then
\* onConstraintChange(value)
handleChange(value) ==
    /\ constraint' = value
    /\ setConstraints(value)

----------------------------------------------------------------------------
(* StepViewer.tsx *)

\* the files a slot receives when the viewers are checked
ViewerFiles == {"file-1", "file-2"}

\* the children the mount effect adds to the scene: two lights and the grid
SceneSetup ==
    <<[name |-> "AmbientLight", isCADPart |-> FALSE, file |-> "none"],
      [name |-> "DirectionalLight", isCADPart |-> FALSE, file |-> "none"],
      [name |-> "GridHelper", isCADPart |-> FALSE, file |-> "none"]>>

\* the group createMockGeometry builds for a file, tagged isCADPart
createMockGeometry(file) ==
    [name |-> "Group", isCADPart |-> TRUE, file |-> file]

\* the file prop of the StepViewer of slot n
FileProp(n) == IF n = 1 THEN part1 ELSE part2

\* the effects of the last render have run: each viewer has seen its prop
EffectsFlushed == \A n \in {1, 2} : scenes[n].file = FileProp(n)

\* useEffect [file] of the StepViewer of slot n, run after a render in which
\* its file prop changed
StepViewerEffect(n) ==
    /\ scenes[n].file # FileProp(n)
    /\ LET file == FileProp(n)
           kept == SelectSeq(scenes[n].children, LAMBDA child : ~child.isCADPart)
       IN scenes' = [scenes EXCEPT ![n] =
                [file     |-> file,
                 children |-> IF file = Null THEN scenes[n].children
                              ELSE Append(kept, createMockGeometry(file[1]))]]
    /\ UNCHANGED <<part1, part2, constraints, assemblyResult, processing,
                   createCall, timers, polls, runs, geo, pipe, exports,
                   constraint, effects>>

\* React runs the pending effects before it handles the next event
FileChange(n, f) == EffectsFlushed /\ onFileUploaded(n, f)
ResetClick == EffectsFlushed /\ handleReset
TextChange(t) == EffectsFlushed /\ handleChange(t)

ViewerNext ==
    \/ \E n \in {1, 2}, f \in ViewerFiles : FileChange(n, f)
    \/ ResetClick
    \/ \E t \in Texts : TextChange(t)
    \/ \E n \in {1, 2} : StepViewerEffect(n)

----------------------------------------------------------------------------
(* AssemblyStatus.tsx and handleExport *)

Formats == {"step", "stl", "obj"}

\* the rows under "Understood Constraints": one per entry of
\* parsedConstraints, with the confidence as a percentage
UnderstoodConstraints(result) ==
    [i \in 1..Len(result.parsedConstraints) |->
        [type    |-> result.parsedConstraints[i].type,
         value   |-> result.parsedConstraints[i].value,
         unit    |-> result.parsedConstraints[i].unit,
         percent |-> result.parsedConstraints[i].confidence]]

\* mutant: the export buttons are rendered for every result
ExportOfferedAnyStatus(result) ==
    result # Null

\* the last block of the component: result.part1 && result.part2 && (...),
\* which reads geometry.center of both parts; every object is truthy
PartCenters(result) ==
    IF result.part1.geometry = Null \/ result.part2.geometry = Null
    THEN "TypeError"
    ELSE "shown"

\* the export buttons are rendered (App always passes onExport)
ExportOffered(result) ==
    /\ result # Null
    /\ result[1].status = "completed"
    /\ result[1].assembly # Undefined

\* `assembly.${format}`
FileName(format) ==
    CASE format = "step" -> "assembly.step"
      [] format = "stl" -> "assembly.stl"
      [] OTHER -> "assembly.obj"

\* an export button is clicked: handleExport up to the await of
\* api.exportAssembly (MaxExports bounds the exports of one behaviour)
handleExport(format) ==
    /\ ExportOffered(assemblyResult)
    /\ assemblyResult # Null
    /\ Cardinality(exports) + Len(effects) < MaxExports
    /\ exports' = exports \cup {[id |-> assemblyResult[1].id, format |-> format]}
    /\ UNCHANGED <<part1, part2, constraints, assemblyResult, processing,
                   createCall, timers, polls, runs, geo, pipe, uiVars>>

\* handleExport after api.exportAssembly resolved: the blob is saved
ExportReturn(e) ==
    /\ e \in exports
    /\ exports' = exports \ {e}
    /\ effects' = Append(effects, [kind |-> "saveAs", text |-> FileName(e.format)])
    /\ UNCHANGED <<part1, part2, constraints, assemblyResult, processing,
                   createCall, timers, polls, runs, geo, pipe, constraint, scenes>>

\* mutant: the catch block saves an empty file under the requested name
ExportThrowSavesEmpty(e) ==
    /\ e \in exports
    /\ exports' = exports \ {e}
    /\ effects' = effects \o <<[kind |-> "saveAs", text |-> FileName(e.format)],
                               [kind |-> "alert", text |-> "Failed to export assembly"]>>
    /\ UNCHANGED <<part1, part2, constraints, assemblyResult, processing,
                   createCall, timers, polls, runs, geo, pipe, constraint, scenes>>

\* handleExport after api.exportAssembly rejected: logged and alerted
ExportThrow(e) ==
    /\ e \in exports
    /\ exports' = exports \ {e}
    /\ effects' = Append(effects,
                         [kind |-> "alert", text |-> "Failed to export assembly"])
    /\ UNCHANGED <<part1, part2, constraints, assemblyResult, processing,
                   createCall, timers, polls, runs, geo, pipe, constraint, scenes>>

----------------------------------------------------------------------------

NoGeo == [phase |-> "off"]
NoPipe == [stage |-> "off"]

AppInit ==
    /\ part1 = Null
    /\ part2 = Null
    /\ constraints = <<>>
    /\ assemblyResult = Null
    /\ processing = FALSE
    /\ createCall = Null
    /\ timers = {}
    /\ polls = {}
    /\ runs = <<>>
    /\ exports = {}
    /\ constraint = <<>>
    /\ effects = <<>>
    /\ scenes = [n \in {1, 2} |-> [file |-> Null, children |-> SceneSetup]]

----------------------------------------------------------------------------
(* Constraints and part centers *)

\* longest parsedConstraints list the checks draw
MaxConstraints == 2

\* how often the same input is drawn and solved
MaxDraws == 2

\* the Constraint values the checks draw from: every band, each threshold from
\* both sides, the three length units, the value 0
ConstraintPool ==
    {DistanceC(v, "mm") : v \in {0, 15, 19, 20, 35, 49, 50, 80, 99, 100, 150}}
    \cup {DistanceC(v, "cm") : v \in {2, 5, 10}}
    \cup {DistanceC(5, "inches")}
    \cup {[DistanceC(30, "mm") EXCEPT !.references = {"part1"}]}
    \cup {AlignmentC("vertical"), AlignmentC("horizontal")}
    \cup {AngleC(90)}

ConstraintLists ==
    UNION {[1..n -> ConstraintPool] : n \in 0..MaxConstraints}

Center1 == <<0, 0, 0>>
Centers2 == {<<100, 0, 0>>, <<30, 40, 0>>, <<0, 16, 0>>, <<0, 0, 0>>}

\* Array.prototype.find(c => c.type === 'distance'): index of the first
\* distance constraint, 0 when there is none
FindDistance(cons) ==
    IF \E i \in 1..Len(cons) : cons[i].type = "distance"
    THEN CHOOSE i \in 1..Len(cons) :
            /\ cons[i].type = "distance"
            /\ \A j \in 1..(i - 1) : cons[j].type # "distance"
    ELSE 0

\* a length in millimetres (1 cm = 10 mm, 1 inch = 25.4 mm)
ToMm(value, unit) ==
    CASE unit = "cm" -> value * 10
      [] unit = "inches" -> (value * 254) \div 10
      [] OTHER -> value

ISqrt(n) == CHOOSE r \in 0..200 : r * r <= n /\ n < (r + 1) * (r + 1)

\* straight-line distance between two centers
CenterDistance(a, b) ==
    ISqrt((a[1] - b[1]) * (a[1] - b[1]) + (a[2] - b[2]) * (a[2] - b[2])
          + (a[3] - b[3]) * (a[3] - b[3]))

----------------------------------------------------------------------------
(* MountingStrategySelector *)

Archetypes ==
    {"direct_mount", "bracket", "spacer", "vertical_post", "horizontal_beam"}

\* the effective target distance of the selector, in millimetres
EffectiveDistance(c1, c2, cons) ==
    LET i == FindDistance(cons) IN
    IF i # 0 THEN ToMm(cons[i].value, cons[i].unit) ELSE CenterDistance(c1, c2)

RequestsVertical(cons) ==
    \E i \in 1..Len(cons) :
        cons[i].type = "alignment" /\ cons[i].orientation = "vertical"

\* the ordered rule list: rule k applies to distance d under constraints cons
RuleApplies(k, d, cons) ==
    CASE k = 1 -> d < 20
      [] k = 2 -> 20 <= d /\ d < 50
      [] k = 3 -> 50 <= d /\ d < 100
      [] k = 4 -> d >= 100 /\ RequestsVertical(cons)
      [] k = 5 -> d >= 100

RuleArchetype ==
    <<"direct_mount", "bracket", "spacer", "vertical_post", "horizontal_beam">>

\* first matching rule wins; "none" when no rule applies
ArchetypeFor(d, cons) ==
    IF \E k \in 1..5 : RuleApplies(k, d, cons)
    THEN RuleArchetype[CHOOSE k \in 1..5 :
            /\ RuleApplies(k, d, cons)
            /\ \A j \in 1..(k - 1) : ~RuleApplies(j, d, cons)]
    ELSE "none"

select(c1, c2, cons) == ArchetypeFor(EffectiveDistance(c1, c2, cons), cons)

----------------------------------------------------------------------------
(* AssemblyViewer.tsx: createConnectorMesh.  Lengths of the mesh are in        *)
(* hundredths of a scene unit, so that the factors 0.8, 0.5, 0.3, 0.25 and    *)
(* the halving of the midpoint stay exact.                                   *)

Min(a, b) == IF a < b THEN a ELSE b
Max(a, b) == IF a > b THEN a ELSE b

\* mutant: the fallback distance is kept between calls and grows with each
MeshDistanceDrifting(cons) ==
    LET i == FindDistance(cons) IN
    IF i # 0 /\ cons[i].value # 0 THEN cons[i].value + Len(geo.mesh)
    ELSE 50 + Len(geo.mesh)

\* const distance = distanceConstraint?.value || 50
MeshDistance(cons) ==
    LET i == FindDistance(cons) IN
    IF i # 0 /\ cons[i].value # 0 THEN cons[i].value ELSE 50

\* mutant: the last branch is guarded too, so long distances fall through
MeshShapeGuardedElse(distance) ==
    IF distance < 20 THEN "direct_mount"
    ELSE IF distance < 50 THEN "bracket"
    ELSE IF distance < 100 THEN "block"
    ELSE "none"

\* mutant: the branches are tested in the wrong order
MeshShapeSwapped(distance) ==
    IF distance < 50 THEN "bracket"
    ELSE IF distance < 20 THEN "direct_mount"
    ELSE "block"

\* mutant: the thresholds belong to the lower band
MeshShapeInclusive(distance) ==
    IF distance <= 20 THEN "direct_mount"
    ELSE IF distance <= 50 THEN "bracket"
    ELSE "block"

\* the if / else-if / else over distance: which connector is built
MeshShape(distance) ==
    IF distance < 20 THEN "direct_mount"
    ELSE IF distance < 50 THEN "bracket"
    ELSE "block"

\* the boxes built for a shape: size (x, y, z) and position inside the group
MeshBoxes(shape, distance, c1, c2) ==
    LET mid == <<50 * (c1[1] + c2[1]), 50 * (c1[2] + c2[2]), 50 * (c1[3] + c2[3])>>
    IN
    CASE shape = "direct_mount" ->
            {[size |-> <<100 * distance, Min(1500, 80 * distance),
                         Min(1000, 50 * distance)>>,
              position |-> mid]}
      [] shape = "bracket" ->
            {[size |-> <<100 * distance, 500, 2000>>,
              position |-> <<0, -1000, 0>>],
             [size |-> <<500, 2000, 2000>>,
              position |-> <<-50 * distance, 0, 0>>]}
      [] shape = "block" ->
            {[size |-> <<100 * distance, Max(2500, 30 * distance),
                         Max(2000, 25 * distance)>>,
              position |-> mid]}
      [] OTHER -> {}

\* the midpoint between the two centers
Midpoint(c1, c2) ==
    <<50 * (c1[1] + c2[1]), 50 * (c1[2] + c2[2]), 50 * (c1[3] + c2[3])>>

\* where the connector is in the scene: the mesh of a direct mount or a block
\* is set to centerPosition; the bracket is a group of its own that is added
\* without a position, so it stays at the origin of connectorGroup
MeshPosition(shape, c1, c2) ==
    IF shape = "bracket" THEN <<0, 0, 0>> ELSE Midpoint(c1, c2)

createConnectorMesh(c1, c2, cons) ==
    LET distance == MeshDistance(cons)
        shape == MeshShape(distance)
    IN [distance |-> distance, shape |-> shape,
        boxes |-> MeshBoxes(shape, distance, c1, c2),
        position |-> MeshPosition(shape, c1, c2)]

\* the archetypes a drawn shape stands for
ShapeOf(archetype) ==
    CASE archetype = "direct_mount" -> "direct_mount"
      [] archetype = "bracket" -> "bracket"
      [] archetype \in {"spacer", "vertical_post", "horizontal_beam"} -> "block"
      [] OTHER -> "none"

----------------------------------------------------------------------------
(* AssemblyViewer.tsx: createPartMesh and createAssemblyVisualization *)

\* the box drawn for a part: its size is the extent of the bounding box, its
\* position the part's center (hundredths of a scene unit)
createPartMesh(center, bbox) ==
    [size     |-> <<100 * (bbox.max[1] - bbox.min[1]),
                    100 * (bbox.max[2] - bbox.min[2]),
                    100 * (bbox.max[3] - bbox.min[3])>>,
     position |-> <<100 * center[1], 100 * center[2], 100 * center[3]>>]

\* mutant: the connector is drawn whenever the result carries constraints
createAssemblyVisualizationAnyStatus(status, connector, c1, c2, box1, box2, cons) ==
    [part1     |-> createPartMesh(c1, box1),
     part2     |-> createPartMesh(c2, box2),
     connector |-> Some(createConnectorMesh(c1, c2, cons))]

\* the group drawn for an AssemblyResult: both parts, and the connector only
\* if the assembly is completed and has a connector
createAssemblyVisualization(status, connector, c1, c2, box1, box2, cons) ==
    [part1     |-> createPartMesh(c1, box1),
     part2     |-> createPartMesh(c2, box2),
     connector |-> IF status = "completed" /\ connector # Undefined
                   THEN Some(createConnectorMesh(c1, c2, cons))
                   ELSE Null]

----------------------------------------------------------------------------
(* ConnectorSizer *)

\* fixed maximum of the secondary dimension per archetype, in millimetres
SizerCap(archetype) ==
    CASE archetype = "direct_mount" -> 15
      [] archetype = "bracket" -> 20
      [] archetype = "spacer" -> 25
      [] OTHER -> 30

\* size: primary span = target distance, thickness = max(5 mm, 0.1 x span)
\* capped at the archetype's maximum; lengths in tenths of a millimetre
size(archetype, span) ==
    [archetype |-> archetype,
     span      |-> 10 * span,
     thickness |-> Min(10 * SizerCap(archetype), Max(50, span))]

----------------------------------------------------------------------------
(* ConstraintSolver *)

HasType(cons, type) == \E i \in 1..Len(cons) : cons[i].type = type

\* what a constraint requires of the degree of freedom of its type
Requirement(c) ==
    CASE c.type = "distance" -> ToMm(c.value, c.unit)
      [] c.type = "alignment" -> c.orientation
      [] OTHER -> c.value

\* two constraints on the same parts and the same degree of freedom that
\* require different things
Contradictory(cons) ==
    \E i, j \in 1..Len(cons) :
        /\ i < j
        /\ cons[i].type = cons[j].type
        /\ cons[i].references = cons[j].references
        /\ Requirement(cons[i]) # Requirement(cons[j])

\* an axis: a direction vector and its length
AxisOf(orientation) ==
    IF orientation = "vertical" THEN [v |-> <<0, 0, 1>>, n |-> 1]
                                ELSE [v |-> <<1, 0, 0>>, n |-> 1]

\* default axis: the vector between the two centers (normalized by n)
DefaultAxis(c1, c2) ==
    [v |-> <<c2[1] - c1[1], c2[2] - c1[2], c2[3] - c1[3]>>,
     n |-> CenterDistance(c1, c2)]

\* the point d millimetres from c1 along axis, in hundredths of a millimetre;
\* an axis of length zero has no direction and leaves the point at c1
Along(c1, axis, d) ==
    IF axis.n = 0 THEN <<100 * c1[1], 100 * c1[2], 100 * c1[3]>>
    ELSE <<100 * c1[1] + (100 * d * axis.v[1]) \div axis.n,
           100 * c1[2] + (100 * d * axis.v[2]) \div axis.n,
           100 * c1[3] + (100 * d * axis.v[3]) \div axis.n>>

\* the deterministic initial guess of a solve: both parts where they are
InitialGuess(c1, c2) ==
    [anchor |-> c1,
     pos1   |-> <<100 * c1[1], 100 * c1[2], 100 * c1[3]>>,
     pos2   |-> <<100 * c2[1], 100 * c2[2], 100 * c2[3]>>,
     axis   |-> DefaultAxis(c1, c2),
     rot2   |-> [angle |-> 0, about |-> <<0, 0, 0>>]]

\* one constraint applied to the working placement: alignment fixes the axis,
\* distance the magnitude along the axis, angle the rotation about the axis
ApplyConstraint(p, c) ==
    CASE c.type = "alignment" -> [p EXCEPT !.axis = AxisOf(c.orientation)]
      [] c.type = "distance" ->
            [p EXCEPT !.pos2 = Along(p.anchor, p.axis, ToMm(c.value, c.unit))]
      [] OTHER -> [p EXCEPT !.rot2 = [angle |-> c.value % 360, about |-> p.axis.v]]

RECURSIVE ApplyAll(_, _)
ApplyAll(p, cs) ==
    IF cs = <<>> THEN p ELSE ApplyAll(ApplyConstraint(p, Head(cs)), Tail(cs))

\* the distance step of a solve: the effective target distance
TargetStep(c1, c2, cons) ==
    DistanceC(EffectiveDistance(c1, c2, cons), "mm")

\* mutant: the constraints are applied in the order of the input list
ApplicationOrderAsGiven(c1, c2, cons) ==
    IF HasType(cons, "distance") THEN cons
    ELSE cons \o <<TargetStep(c1, c2, cons)>>

\* the fixed order of application: alignment, then distance, then angle
ApplicationOrder(c1, c2, cons) ==
    SelectSeq(cons, LAMBDA c : c.type = "alignment")
    \o <<TargetStep(c1, c2, cons)>>
    \o SelectSeq(cons, LAMBDA c : c.type = "angle")

\* no alignment fixes the axis and the centers coincide: no axis exists
AxisUndefined(c1, c2, cons) ==
    ~HasType(cons, "alignment") /\ CenterDistance(c1, c2) = 0

\* solve: a Placement, or the error of an infeasible input
solve(c1, c2, cons) ==
    IF Contradictory(cons)
    THEN [ok |-> FALSE, error |-> "ConstraintConflictError", placement |-> Null]
    ELSE IF AxisUndefined(c1, c2, cons)
    THEN [ok |-> FALSE, error |-> "GeometryError", placement |-> Null]
    ELSE [ok |-> TRUE, error |-> Undefined,
          placement |-> Some(ApplyAll(InitialGuess(c1, c2),
                                      ApplicationOrder(c1, c2, cons)))]

----------------------------------------------------------------------------
(* Selection and drawing applied to drawn inputs *)

GeomInit ==
    /\ AppInit
    /\ pipe = NoPipe
    /\ \E cons \in ConstraintLists, c2 \in Centers2 :
          geo = [phase |-> "on", cons |-> cons, c1 |-> Center1, c2 |-> c2,
                 archetype |-> "unset", mesh |-> <<>>, placements |-> <<>>]

\* the selector runs on the input
SelectArchetype ==
    /\ geo.phase = "on"
    /\ geo.archetype = "unset"
    /\ geo' = [geo EXCEPT !.archetype = select(geo.c1, geo.c2, geo.cons)]
    /\ UNCHANGED <<appVars, pipe>>

\* the viewer draws the connector of a completed result with these parts and
\* constraints (again when the effect runs again); geo.mesh lists the draws
DrawConnector ==
    /\ geo.phase = "on"
    /\ Len(geo.mesh) < MaxDraws
    /\ geo' = [geo EXCEPT !.mesh =
                    Append(geo.mesh, createConnectorMesh(geo.c1, geo.c2, geo.cons))]
    /\ UNCHANGED <<appVars, pipe>>

\* the solver runs on the input (again); geo.placements lists the results
SolvePlacement ==
    /\ geo.phase = "on"
    /\ Len(geo.placements) < MaxDraws
    /\ geo' = [geo EXCEPT !.placements =
                    Append(geo.placements, solve(geo.c1, geo.c2, geo.cons))]
    /\ UNCHANGED <<appVars, pipe>>

GeomNext == SelectArchetype \/ DrawConnector \/ SolvePlacement

GeomSpec == GeomInit /\ [][GeomNext]_vars

----------------------------------------------------------------------------
(* The backend pipeline of one run:                                          *)
(* strategy -> sizing -> solving -> collision check -> assembly              *)

\* bounding boxes of the drawn parts, relative to the part's center
SolidBox == [min |-> <<-10, -10, -10>>, max |-> <<10, 10, 10>>]
FlatBox == [min |-> <<-10, -10, 0>>, max |-> <<10, 10, 0>>]

\* a bounding box of zero volume
Degenerate(box) == \E i \in 1..3 : box.max[i] - box.min[i] <= 0

\* two distance constraints on the same parts whose lengths differ
Conflicting(cons) ==
    \E i, j \in 1..Len(cons) :
        /\ i < j
        /\ cons[i].type = "distance"
        /\ cons[j].type = "distance"
        /\ cons[i].references = cons[j].references
        /\ ToMm(cons[i].value, cons[i].unit) # ToMm(cons[j].value, cons[j].unit)

PipeInit ==
    /\ AppInit
    /\ geo = NoGeo
    /\ \E cons \in ConstraintLists, c2 \in {<<100, 0, 0>>, <<30, 40, 0>>, <<0, 0, 0>>},
          box2 \in {SolidBox, FlatBox} :
          pipe = [stage |-> "select", status |-> "processing", error |-> Undefined,
                  cons |-> cons, c1 |-> Center1, c2 |-> c2,
                  box1 |-> SolidBox, box2 |-> box2,
                  archetype |-> "unset", span |-> 0, target |-> 0,
                  passes |-> 0, reports |-> <<>>, dirty |-> FALSE,
                  failedAt |-> "none",
                  connectorSpec |-> Null, placement |-> Null, drawn |-> Null]

PipeAt(stage) ==
    pipe.stage = stage /\ pipe.status = "processing"

PipeRaise(e) ==
    [pipe EXCEPT !.status = "failed", !.error = e,
                 !.failedAt = pipe.stage, !.stage = "done"]

\* mutant: the run goes from selection straight to solving
PipeSelectSkipsSizing ==
    /\ PipeAt("select")
    /\ pipe' = [pipe EXCEPT !.archetype = select(pipe.c1, pipe.c2, pipe.cons),
                            !.stage = "solve"]
    /\ UNCHANGED <<appVars, geo>>

\* MountingStrategySelector.select
PipeSelect ==
    /\ PipeAt("select")
    /\ pipe' = [pipe EXCEPT !.archetype = select(pipe.c1, pipe.c2, pipe.cons),
                            !.stage = "size"]
    /\ UNCHANGED <<appVars, geo>>

\* mutant: the sizer does not look at the parts' bounding boxes
PipeSizeNoBoxCheck ==
    /\ PipeAt("size")
    /\ LET span == EffectiveDistance(pipe.c1, pipe.c2, pipe.cons) IN
        pipe' = IF span <= 0
                THEN PipeRaise("GeometryError")
                ELSE [pipe EXCEPT !.span = span,
                                  !.connectorSpec = Some(size(pipe.archetype, span)),
                                  !.stage = "solve"]
    /\ UNCHANGED <<appVars, geo>>

\* ConnectorSizer.size: the span is the target distance
PipeSize ==
    /\ PipeAt("size")
    /\ LET span == EffectiveDistance(pipe.c1, pipe.c2, pipe.cons) IN
        pipe' = IF span <= 0 \/ Degenerate(pipe.box1) \/ Degenerate(pipe.box2)
                THEN PipeRaise("GeometryError")
                ELSE [pipe EXCEPT !.span = span,
                                  !.connectorSpec = Some(size(pipe.archetype, span)),
                                  !.stage = "solve"]
    /\ UNCHANGED <<appVars, geo>>

\* mutant: the solver uses the first distance constraint and ignores the others
PipeSolveFirstWins ==
    /\ PipeAt("solve")
    /\ pipe' = [pipe EXCEPT
                    !.target = EffectiveDistance(pipe.c1, pipe.c2, pipe.cons),
                    !.placement = Some(ApplyAll(InitialGuess(pipe.c1, pipe.c2),
                        ApplicationOrder(pipe.c1, pipe.c2, pipe.cons))),
                    !.dirty = TRUE, !.stage = "check"]
    /\ UNCHANGED <<appVars, geo>>

\* ConstraintSolver.solve: part1 anchored, part2 at the target distance
PipeSolve ==
    /\ PipeAt("solve")
    /\ LET s == solve(pipe.c1, pipe.c2, pipe.cons) IN
        pipe' = IF ~s.ok
                THEN PipeRaise(s.error)
                ELSE [pipe EXCEPT
                        !.target = EffectiveDistance(pipe.c1, pipe.c2, pipe.cons),
                        !.placement = s.placement,
                        !.dirty = TRUE, !.stage = "check"]
    /\ UNCHANGED <<appVars, geo>>

\* CollisionChecker.check on the solved placement; the report depends on
\* geometry the pipeline does not own, so both reports are possible
PipeCheck(collides) ==
    /\ PipeAt("check")
    /\ pipe' = [pipe EXCEPT !.reports = Append(pipe.reports, collides),
                            !.dirty = FALSE,
                            !.stage = IF collides THEN "resolve" ELSE "assemble"]
    /\ UNCHANGED <<appVars, geo>>

\* the resolution pass: the connector is translated by the separating distance
PipeResolve ==
    /\ PipeAt("resolve")
    /\ pipe' = [pipe EXCEPT !.passes = pipe.passes + 1, !.dirty = TRUE,
                            !.stage = "recheck"]
    /\ UNCHANGED <<appVars, geo>>

\* mutant: a colliding re-check starts another resolution pass
PipeRecheckRetry(collides) ==
    /\ PipeAt("recheck")
    /\ pipe' = [pipe EXCEPT !.reports = Append(pipe.reports, collides),
                            !.dirty = FALSE,
                            !.stage = IF collides THEN "resolve" ELSE "assemble"]
    /\ UNCHANGED <<appVars, geo>>

\* the re-check after the resolution pass
PipeRecheck(collides) ==
    /\ PipeAt("recheck")
    /\ LET checked == [pipe EXCEPT !.reports = Append(pipe.reports, collides),
                                   !.dirty = FALSE]
       IN pipe' = IF collides
                  THEN [checked EXCEPT !.status = "failed", !.error = "CollisionError",
                                       !.failedAt = "recheck", !.stage = "done"]
                  ELSE [checked EXCEPT !.stage = "assemble"]
    /\ UNCHANGED <<appVars, geo>>

\* AssemblyAssembler.assemble
PipeAssemble ==
    /\ PipeAt("assemble")
    /\ pipe' = [pipe EXCEPT !.status = "completed", !.stage = "done"]
    /\ UNCHANGED <<appVars, geo>>

\* the run exceeds its budget and is cancelled at a stage boundary
PipeTimeout ==
    /\ pipe.stage \notin {"off", "done"}
    /\ pipe.status = "processing"
    /\ pipe' = PipeRaise("TimeoutError")
    /\ UNCHANGED <<appVars, geo>>

\* the viewer draws the run's terminal AssemblyResult: the parts are echoed
\* back as they were analysed, the constraints as parsedConstraints
PipeDraw ==
    /\ pipe.stage = "done"
    /\ pipe.drawn = Null
    /\ pipe' = [pipe EXCEPT !.drawn = Some(createAssemblyVisualization(
                    pipe.status,
                    IF pipe.status = "completed" THEN "connector-url" ELSE Undefined,
                    pipe.c1, pipe.c2, pipe.box1, pipe.box2, pipe.cons))]
    /\ UNCHANGED <<appVars, geo>>

PipeNext ==
    \/ PipeSelect
    \/ PipeSize
    \/ PipeSolve
    \/ \E collides \in BOOLEAN : PipeCheck(collides)
    \/ PipeResolve
    \/ \E collides \in BOOLEAN : PipeRecheck(collides)
    \/ PipeAssemble
    \/ PipeTimeout
    \/ PipeDraw

PipeSpec == PipeInit /\ [][PipeNext]_vars

----------------------------------------------------------------------------

Init == AppInit /\ geo = NoGeo /\ pipe = NoPipe

Next ==
    \/ \E n \in {1, 2} : onFileUploaded(n, UploadedFiles[n])
    \/ \E t \in Texts : handleChange(t)
    \/ handleGenerateAssembly
    \/ ServerCreate
    \/ CreateReturn
    \/ \E error \in Thrown : CreateThrow(error)
    \/ \E id \in 1..MaxRuns : PollTick(id)
    \/ \E p \in polls : ServerPoll(p)
    \/ \E p \in polls : PollReturn(p)
    \/ \E p \in polls : PollThrow(p)
    \/ \E id \in 1..MaxRuns : RunComplete(id)
    \/ \E id \in 1..MaxRuns, e \in StageErrors : RunFail(id, e)
    \/ \E id \in 1..MaxRuns : RunTimeout(id)
    \/ handleReset

Spec == Init /\ [][Next]_vars

\* The export handler reads assemblyResult and writes nothing but exports, which
\* no other action reads: ExportSpec adds it to the client.
ExportNext ==
    \/ Next
    \/ \E format \in Formats : handleExport(format)
    \/ \E e \in exports : ExportReturn(e)
    \/ \E e \in exports : ExportThrow(e)

ExportSpec == Init /\ [][ExportNext]_vars

\* Scheduling the runtime guarantees: an active interval timer keeps firing, the
\* backend answers what it receives, a settled promise runs its continuation,
\* and a run does not stay in processing past its budget.  Rejections of api
\* calls and the user's clicks are possible but not guaranteed.
Fairness ==
    /\ \A id \in 1..MaxRuns : WF_vars(PollTick(id))
    /\ WF_vars(\E p \in polls : ServerPoll(p))
    /\ WF_vars(\E p \in polls : PollReturn(p))
    /\ WF_vars(ServerCreate)
    /\ WF_vars(CreateReturn)
    /\ \A id \in 1..MaxRuns :
          WF_vars(RunComplete(id) \/ RunTimeout(id)
                  \/ \E e \in StageErrors : RunFail(id, e))

ViewerSpec == Init /\ [][ViewerNext]_vars

FairSpec == Spec /\ Fairness

\* The promise of api.createAssembly settles (axios rejects a request that is
\* not answered within its timeout) and the continuation of the await runs.
CreateSettles ==
    CreateReturn \/ \E error \in Thrown : CreateThrow(error)

SettleSpec == Spec /\ WF_vars(CreateSettles)

----------------------------------------------------------------------------
(* Claims *)

Displayed(status) ==
    assemblyResult # Null /\ assemblyResult[1].status = status

\* C1: for one run, once the displayed result is completed or failed, no later
\* step changes the displayed status of that run (neither back to processing
\* nor to the other terminal value).
C1_TerminalIsFinal ==
    [][(/\ assemblyResult # Null
        /\ assemblyResult[1].status \in Terminal
        /\ assemblyResult' # Null
        /\ assemblyResult'[1].id = assemblyResult[1].id)
       => assemblyResult'[1].status = assemblyResult[1].status]_vars

WellFormed(r) ==
    /\ r.connector # Undefined => r.status = "completed"
    /\ r.assembly # Undefined => r.status = "completed"
    /\ r.error # Undefined => r.status = "failed"

\* C2: in every AssemblyResult the caller sees (displayed, or carried by a
\* response of createAssembly / getAssembly), connector and assembly are present
\* only with status completed and error only with status failed.
C2_ArtifactsMatchStatus ==
    /\ assemblyResult # Null => WellFormed(assemblyResult[1])
    /\ createCall # Null /\ createCall[1].resp # Null
            => WellFormed(createCall[1].resp[1])
    /\ \A p \in polls : p.resp # Null => WellFormed(p.resp[1])

\* the synthesised failed result is displayed while a completed result of an
\* earlier run, carrying its artifacts, is on its way to the client
C2_Witness ==
    /\ assemblyResult # Null
    /\ assemblyResult[1].id = ErrorId
    /\ assemblyResult[1].status = "failed"
    /\ assemblyResult[1].error # Undefined
    /\ \E p \in polls :
          /\ p.resp # Null
          /\ p.resp[1].status = "completed"
          /\ p.resp[1].connector # Undefined
          /\ p.resp[1].assembly # Undefined

\* C10: a displayed processing status is always followed by a state in which
\* the client no longer shows processing (the run was reported completed or
\* failed, at the latest by the timeout).
C10_EventuallyTerminal ==
    Displayed("processing") ~> ~Displayed("processing")

\* a failed result carries a non-empty error string
FailedHasError(r) ==
    r.status = "failed" => r.error # Undefined /\ r.error # ""

\* C11: every error raised while an assembly is created reaches the caller as
\* an AssemblyResult with status failed and a non-empty error string: the
\* result App builds when createAssembly rejects is such a result, and no
\* failed result the caller sees (displayed or carried by a response) has an
\* empty or missing error.
C11_ErrorsBecomeFailedResults ==
    /\ assemblyResult # Null => FailedHasError(assemblyResult[1])
    /\ assemblyResult # Null /\ assemblyResult[1].id = ErrorId
            => assemblyResult[1].status = "failed"
    /\ createCall # Null /\ createCall[1].resp # Null
            => FailedHasError(createCall[1].resp[1])
    /\ \A p \in polls : p.resp # Null => FailedHasError(p.resp[1])

\* createAssembly rejected with a value that is no Error: the displayed result
\* is failed with the fallback text
C11_Witness ==
    /\ assemblyResult # Null
    /\ assemblyResult[1].id = ErrorId
    /\ assemblyResult[1].status = "failed"
    /\ assemblyResult[1].error = "Unknown error occurred"
    /\ ~processing
    /\ createCall = Null

GeoSelected == geo.phase = "on" /\ geo.archetype # "unset"
GeoDrawn == geo.phase = "on" /\ geo.mesh # Null
GeoTarget == EffectiveDistance(geo.c1, geo.c2, geo.cons)

\* C3: archetype totality: for every distance >= 0 and every constraint list the
\* selector returns one of the five archetypes, and the viewer builds one of its
\* connector geometries; no input falls through.
C3_ArchetypeTotality ==
    /\ GeoSelected => geo.archetype \in Archetypes
    /\ GeoDrawn => /\ geo.mesh[1].shape \in {"direct_mount", "bracket", "block"}
                   /\ geo.mesh[1].boxes # {}

\* a distance of the last band (150 mm, vertical alignment) was selected and drawn
C3_Witness ==
    /\ GeoSelected
    /\ GeoDrawn
    /\ GeoTarget >= 100
    /\ geo.archetype = "vertical_post"
    /\ geo.mesh[1].distance >= 100
    /\ geo.mesh[1].shape = "block"

\* C4: selection follows the ordered rule list, first match wins: < 20 mm
\* direct_mount, 20..50 bracket, 50..100 spacer, >= 100 with a vertical
\* alignment vertical_post, >= 100 otherwise horizontal_beam; the viewer builds
\* the connector of the same band for the distance it uses.
C4_OrderedRules ==
    /\ GeoSelected =>
        LET d == GeoTarget IN
        /\ d < 20 => geo.archetype = "direct_mount"
        /\ 20 <= d /\ d < 50 => geo.archetype = "bracket"
        /\ 50 <= d /\ d < 100 => geo.archetype = "spacer"
        /\ d >= 100 /\ RequestsVertical(geo.cons) => geo.archetype = "vertical_post"
        /\ d >= 100 /\ ~RequestsVertical(geo.cons) => geo.archetype = "horizontal_beam"
    /\ GeoDrawn =>
        LET m == geo.mesh[1].distance IN
        /\ m < 20 => geo.mesh[1].shape = "direct_mount"
        /\ 20 <= m /\ m < 50 => geo.mesh[1].shape = "bracket"
        /\ 50 <= m => geo.mesh[1].shape = "block"
        /\ geo.mesh[1].shape = ShapeOf(ArchetypeFor(m, geo.cons))

\* 15 mm was selected as direct_mount and drawn as the direct mount box
C4_Witness ==
    /\ GeoSelected
    /\ GeoDrawn
    /\ GeoTarget = 15
    /\ geo.archetype = "direct_mount"
    /\ geo.mesh[1].distance = 15
    /\ geo.mesh[1].shape = "direct_mount"

\* C5: boundary determinism: a distance equal to a threshold resolves to the
\* higher band: 20 -> bracket, 50 -> spacer, 100 -> vertical_post or
\* horizontal_beam, in the selector and in the connector the viewer builds.
C5_BoundaryHigherBand ==
    /\ GeoSelected =>
        /\ GeoTarget = 20 => geo.archetype = "bracket"
        /\ GeoTarget = 50 => geo.archetype = "spacer"
        /\ GeoTarget = 100 => geo.archetype \in {"vertical_post", "horizontal_beam"}
    /\ GeoDrawn =>
        /\ geo.mesh[1].distance = 20 => geo.mesh[1].shape = "bracket"
        /\ geo.mesh[1].distance = 50 => geo.mesh[1].shape = "block"
        /\ geo.mesh[1].distance = 100 => geo.mesh[1].shape = "block"

\* exactly 20 mm was selected as bracket and drawn as the L-bracket
C5_Witness ==
    /\ GeoSelected
    /\ GeoDrawn
    /\ GeoTarget = 20
    /\ geo.archetype = "bracket"
    /\ geo.mesh[1].distance = 20
    /\ geo.mesh[1].shape = "bracket"

C7_DefaultIsCenterDistance ==
    GeoDrawn /\ FindDistance(geo.cons) = 0
        => geo.mesh[1].distance = CenterDistance(geo.c1, geo.c2)

PipeOn == pipe.stage # "off"

----------------------------------------------------------------------------
(* Claims about sizing, stage order and placement *)

PipeSized == PipeOn /\ pipe.connectorSpec # Null
PipeSolved == PipeOn /\ pipe.placement # Null
PipeDrawn == PipeOn /\ pipe.drawn # Null
PipeTarget == EffectiveDistance(pipe.c1, pipe.c2, pipe.cons)

\* the boxes of the drawn connector (none when no connector is drawn)
DrawnBoxes ==
    IF PipeDrawn /\ pipe.drawn[1].connector # Null
    THEN pipe.drawn[1].connector[1].boxes ELSE {}

AllPositive(v) == \A i \in 1..3 : v[i] > 0

MeshCap(shape) ==
    CASE shape = "direct_mount" -> <<1500, 1000>>
      [] shape = "bracket" -> <<2000, 2000>>
      [] OTHER -> <<2500, 2000>>

\* C13: the connector's primary span equals the target distance and every
\* secondary dimension is at most the fixed maximum of its archetype, in the
\* ConnectorSpec and in the connector drawn for the completed run.
C13_SecondaryCapped ==
    PipeOn =>
        /\ PipeSized =>
            /\ pipe.connectorSpec[1].span = 10 * PipeTarget
            /\ pipe.connectorSpec[1].thickness <= 10 * SizerCap(pipe.archetype)
        /\ \A box \in DrawnBoxes :
            /\ box.size[2] <= MeshCap(pipe.drawn[1].connector[1].shape)[1]
            /\ box.size[3] <= MeshCap(pipe.drawn[1].connector[1].shape)[2]

\* the stage b may follow the stage a
StageFollows(a, b) ==
    \/ a = "select" /\ b = "size"
    \/ a = "size" /\ b = "solve"
    \/ a = "solve" /\ b = "check"
    \/ a = "check" /\ b \in {"resolve", "assemble"}
    \/ a = "resolve" /\ b = "recheck"
    \/ a = "recheck" /\ b = "assemble"

\* what each stage has to find when it starts
StageInputs ==
    /\ pipe.stage = "select" => pipe.archetype = "unset"
    /\ pipe.stage \in {"size", "solve", "check", "resolve", "recheck", "assemble"}
            => pipe.archetype \in Archetypes
    /\ pipe.stage = "size" => pipe.connectorSpec = Null
    /\ pipe.stage \in {"solve", "check", "resolve", "recheck", "assemble"}
            => pipe.connectorSpec # Null
    /\ pipe.stage = "solve" => pipe.placement = Null
    /\ pipe.stage \in {"check", "resolve", "recheck", "assemble"}
            => pipe.placement # Null
    /\ pipe.stage \in {"select", "size", "solve", "check"} => pipe.reports = <<>>
    /\ pipe.stage = "assemble" \/ pipe.status = "completed" =>
            /\ pipe.archetype \in Archetypes
            /\ pipe.connectorSpec # Null
            /\ pipe.placement # Null
            /\ pipe.reports # <<>>
            /\ ~pipe.reports[Len(pipe.reports)]
    /\ pipe.placement # Null => pipe.connectorSpec # Null
    /\ pipe.connectorSpec # Null => pipe.archetype \in Archetypes

SqDist(a, b) ==
    (a[1] - b[1]) * (a[1] - b[1]) + (a[2] - b[2]) * (a[2] - b[2])
    + (a[3] - b[3]) * (a[3] - b[3])

\* C15: after a successful solve part1 is at its original center and part2's
\* center is at exactly the target distance from it, in the solved placement
\* and in the assembly shown for the completed run (with a distance
\* constraint: at that constraint's value).
C15_Part2AtConstraintDistance ==
    /\ PipeSolved =>
        /\ pipe.placement[1].pos1 = InitialGuess(pipe.c1, pipe.c2).pos1
        /\ SqDist(pipe.placement[1].pos1, pipe.placement[1].pos2)
                = (100 * PipeTarget) * (100 * PipeTarget)
    /\ PipeDrawn /\ pipe.status = "completed" /\ HasType(pipe.cons, "distance") =>
        /\ pipe.drawn[1].part1.position = InitialGuess(pipe.c1, pipe.c2).pos1
        /\ SqDist(pipe.drawn[1].part1.position, pipe.drawn[1].part2.position)
                = (100 * PipeTarget) * (100 * PipeTarget)

\* the lists with the elements of cons in every order
Perms(cons) ==
    LET n == Len(cons) IN
    {[i \in 1..n |-> cons[f[i]]] :
        f \in {g \in [1..n -> 1..n] : \A i, j \in 1..n : g[i] = g[j] => i = j}}

SamePair(cons) == \A i \in 1..Len(cons) : cons[i].references = Both

\* the axis the constraints fix: that of the alignment, else the default
FixedAxis(c1, c2, cons) ==
    IF HasType(cons, "alignment")
    THEN AxisOf((CHOOSE c \in {cons[i] : i \in 1..Len(cons)} :
                    c.type = "alignment").orientation)
    ELSE DefaultAxis(c1, c2)

\* C16: constraints on the same part pair are applied as alignment, distance,
\* angle whatever their order in the input: the distance is laid off along
\* the axis the alignment fixes, the rotation is about that axis, and every
\* permutation of the input list gives the same placement or the same error.
C16_OrderIndependent ==
    PipeOn /\ SamePair(pipe.cons) =>
        /\ \A q \in Perms(pipe.cons) :
                solve(pipe.c1, pipe.c2, q) = solve(pipe.c1, pipe.c2, pipe.cons)
        /\ PipeSolved =>
            /\ solve(pipe.c1, pipe.c2, pipe.cons).placement = pipe.placement
            /\ pipe.placement[1].axis = FixedAxis(pipe.c1, pipe.c2, pipe.cons)
            /\ pipe.placement[1].pos2 =
                    Along(pipe.c1, FixedAxis(pipe.c1, pipe.c2, pipe.cons), PipeTarget)
            /\ HasType(pipe.cons, "angle") =>
                    pipe.placement[1].rot2.about
                        = FixedAxis(pipe.c1, pipe.c2, pipe.cons).v

\* the distance comes before the alignment in the input; the solved part2 is
\* 50 mm up the vertical axis
C16_Witness ==
    /\ PipeSolved
    /\ pipe.cons = <<DistanceC(50, "mm"), AlignmentC("vertical")>>
    /\ pipe.c2 = <<100, 0, 0>>
    /\ pipe.placement[1].pos2 = <<0, 0, 5000>>

----------------------------------------------------------------------------
(* Claims about the echoed constraints, polling and artifacts *)

\* result carries and shows every constraint parsed from text
Echoes(result, text) ==
    /\ result.parsedConstraints = ParseConstraints(text)
    /\ Len(UnderstoodConstraints(result)) = Len(ParseConstraints(text))
    /\ \A i \in 1..Len(ParseConstraints(text)) :
            /\ UnderstoodConstraints(result)[i].type = ParseConstraints(text)[i].type
            /\ UnderstoodConstraints(result)[i].percent
                    = ParseConstraints(text)[i].confidence

\* C18: every result shown for a request, completed or failed, carries in
\* parsedConstraints every constraint of the request's instruction, whatever
\* its confidence, and AssemblyStatus lists each of them.
C18_ConstraintsEchoed ==
    /\ [](assemblyResult # Null /\ assemblyResult[1].id \in DOMAIN runs =>
            /\ assemblyResult[1].parsedConstraints
                    = runs[assemblyResult[1].id].parsed
            /\ Len(UnderstoodConstraints(assemblyResult[1]))
                    = Len(runs[assemblyResult[1].id].parsed))
    /\ [][createCall # Null /\ createCall' = Null /\ assemblyResult' # Null =>
            Echoes(assemblyResult'[1], createCall[1].req.constraints)]_vars

ViewerConnector(result) ==
    createAssemblyVisualization(result.status, result.connector,
        Center1, <<100, 0, 0>>, SolidBox, SolidBox,
        result.parsedConstraints).connector

\* C20: artifacts are exposed only for completed runs: the export buttons are
\* rendered, an export request is sent and the connector is drawn only while
\* the displayed result is completed (with assembly, respectively connector,
\* present); an export request names the displayed, completed run, never the
\* result App builds in its catch block.
C20_ArtifactsOnlyWhenCompleted ==
    /\ [](/\ ExportOffered(assemblyResult) =>
                Displayed("completed") /\ assemblyResult[1].assembly # Undefined
          /\ assemblyResult # Null /\ ViewerConnector(assemblyResult[1]) # Null =>
                Displayed("completed") /\ assemblyResult[1].connector # Undefined
          /\ \A e \in exports : e.id # ErrorId)
    /\ [][\A e \in exports' \ exports :
                /\ Displayed("completed")
                /\ assemblyResult[1].assembly # Undefined
                /\ e.id = assemblyResult[1].id]_vars

\* an export of the displayed completed run is in flight
C20_Witness ==
    /\ Displayed("completed")
    /\ \E e \in exports : e.id = assemblyResult[1].id /\ e.format = "stl"
    /\ ViewerConnector(assemblyResult[1]) # Null

----------------------------------------------------------------------------
(* Claims about the handlers of App.tsx and their frames *)

\* the test at the head of handleGenerateAssembly passes
GenerateReady ==
    part1 # Null /\ part2 # Null /\ Trim(constraints) # <<>>

\* C21: a createAssembly request starts only in a state where both parts are
\* uploaded and the trimmed instruction text is non-empty, and it carries the
\* id of part1 as part1Id, the id of part2 as part2Id and the trimmed text; in a
\* state where the test fails no request starts and processing is not set.
C21_GenerateSendsOnlyWhenReady ==
    /\ [][createCall = Null /\ createCall' # Null =>
            /\ GenerateReady
            /\ createCall'[1].resp = Null
            /\ createCall'[1].req = [part1Id     |-> part1[1],
                                     part2Id     |-> part2[1],
                                     constraints |-> Trim(constraints)]]_vars
    /\ [][~GenerateReady =>
            /\ createCall' # Null => createCall' = createCall
            /\ processing' => processing]_vars

\* a request is outstanding whose text was typed with surrounding blanks
C21_Witness ==
    /\ createCall # Null
    /\ createCall[1].resp = Null
    /\ constraints # Trim(constraints)
    /\ createCall[1].req = [part1Id |-> "file-1", part2Id |-> "file-2",
                            constraints |-> <<"a">>]

\* C22: processing is true exactly while a createAssembly call is outstanding,
\* and every outstanding call settles, after which processing is false again;
\* while processing is true the parts, the instruction text and the textarea
\* do not change and the outstanding call is not replaced by another one.
C22_ProcessingBracketsCreate ==
    /\ [](processing <=> createCall # Null)
    /\ [][processing =>
            /\ part1' = part1
            /\ part2' = part2
            /\ constraints' = constraints
            /\ constraint' = constraint
            /\ createCall' # Null =>
                  /\ createCall'[1].req = createCall[1].req
                  /\ createCall[1].resp # Null =>
                        createCall'[1].resp = createCall[1].resp]_vars
    /\ (processing ~> ~processing)

\* a call was rejected and processing is false again
C22_Witness ==
    /\ ~processing
    /\ createCall = Null
    /\ assemblyResult # Null
    /\ assemblyResult[1].id = ErrorId

----------------------------------------------------------------------------
(* Claims about handleExport *)

ExportAlert == [kind |-> "alert", text |-> "Failed to export assembly"]

\* C23: no step of an export (the click, the saved blob, the caught rejection)
\* changes assemblyResult, part1, part2, constraints or processing; an export
\* that ends has exactly one effect, the file named after its format or the
\* alert of the catch block, so a rejected export saves no file; and a request
\* starts only for the id of a displayed result.
C23_FailedExportChangesNothing ==
    /\ [][exports' # exports \/ effects' # effects =>
            UNCHANGED <<assemblyResult, part1, part2, constraints, processing>>]_vars
    /\ [][\A e \in exports \ exports' :
            \/ effects' = Append(effects, ExportAlert)
            \/ effects' = Append(effects,
                    [kind |-> "saveAs", text |-> FileName(e.format)])]_vars
    /\ [][effects' # effects => exports' # exports /\ exports' \subseteq exports]_vars
    /\ [][\A e \in exports' \ exports :
            assemblyResult # Null /\ e.id = assemblyResult[1].id]_vars

\* an export was rejected: the alert was shown and the completed result is
\* still displayed
C23_Witness ==
    /\ effects # <<>>
    /\ effects[Len(effects)] = ExportAlert
    /\ exports = {}
    /\ Displayed("completed")

----------------------------------------------------------------------------
(* Claims about the components' own state *)

CADParts(n) == SelectSeq(scenes[n].children, LAMBDA child : child.isCADPart)

\* C24: once the effects of a render have run, the scene of each StepViewer
\* holds exactly the geometry of its current file: one part group, built for
\* that file, and no part group when the file is null.
C24_SceneHoldsCurrentInput ==
    EffectsFlushed =>
        \A n \in {1, 2} :
            CADParts(n) = IF FileProp(n) = Null THEN <<>>
                          ELSE <<createMockGeometry(FileProp(n)[1])>>

----------------------------------------------------------------------------
(* Claims about the polling timers *)

\* C25: at most one polling timer is active in every reachable state.
C25_AtMostOneTimer ==
    Cardinality(timers) <= 1

\* C26: a step that is not the settling of a createAssembly call puts a result
\* on display only in place of an earlier snapshot of the same run: a poll
\* response never replaces the result of another request, and never shows a
\* result where none is displayed (after Reset, or while the next request is
\* outstanding).
C26_DisplayBelongsToLatest ==
    [][(/\ assemblyResult' # assemblyResult
        /\ assemblyResult' # Null
        /\ createCall' = createCall)
       => /\ assemblyResult # Null
          /\ assemblyResult[1].id = assemblyResult'[1].id]_vars

\* C27: a displayed result with status processing has an active polling timer
\* of its run; where the timer of the displayed run is gone, the displayed
\* status is completed or failed.
C27_StoppedPollingIsTerminal ==
    Displayed("processing") => assemblyResult[1].id \in timers

----------------------------------------------------------------------------
(* Claims about what AssemblyStatus and the viewer draw *)

\* C28: for the result on display, AssemblyStatus reads geometry.center only
\* of parts that have a geometry, so rendering raises no TypeError.
C28_StatusRenders ==
    assemblyResult # Null => PartCenters(assemblyResult[1]) # "TypeError"

\* C29: the text held by ConstraintInput equals App's constraints state in
\* every reachable state.
C29_InputMatchesApp ==
    constraint = constraints

\* C30: every connector createConnectorMesh has drawn, whatever its band, is
\* positioned at the midpoint between the centers of part1 and part2.
C30_ConnectorAtMidpoint ==
    geo.phase = "on" =>
        \A i \in 1..Len(geo.mesh) :
            geo.mesh[i].position = Midpoint(geo.c1, geo.c2)

====
